---- MODULE Spec2Model ----
(***************************************************************************)
(* A model of the GO-http-server repository: the Router (route table under *)
(* a sync.RWMutex, addRoute and ServeHTTP), the Context helpers (JSON,     *)
(* String, Status) and the response sink they write to.                    *)
(***************************************************************************)
EXTENDS Integers, Sequences, FiniteSets, TLC

\* ------------------------------------------------------------------------
\* Bounds of the model
\* ------------------------------------------------------------------------

\* Registrations started in one behaviour.
MaxRegs == 2

\* Dispatches (ServeHTTP calls) started in one behaviour.
MaxReqs == 2

\* Helper calls made on one response sink in the Context specification.
MaxHelperCalls == 2

\* ------------------------------------------------------------------------
\* HTTP status codes used by the program
\* ------------------------------------------------------------------------

StatusOK == 200
StatusCreated == 201
StatusNotFound == 404
StatusMethodNotAllowed == 405
StatusInternalServerError == 500

ContentTypeJSON == "application/json"
ContentTypeText == "text/plain; charset=utf-8"

None == "none"

\* ------------------------------------------------------------------------
\* The response sink (http.ResponseWriter)
\*   kind        "recorder" (httptest.ResponseRecorder, used by the tests)
\*               or "server" (the http.Server's response, used by main)
\*   header      the Content-Type currently in the header map
\*   wroteHeader whether the status line has been finalized
\*   code        the finalized status (0 before)
\*   sentHeader  the Content-Type as it was when the status was finalized
\*   body        the body written, a sequence of chunks
\*   ops         every operation issued on the sink, in order
\* ------------------------------------------------------------------------

SinkKinds == {"recorder", "server"}

NewSink(kind) ==
    [kind |-> kind, header |-> None, wroteHeader |-> FALSE, code |-> 0,
     sentHeader |-> None, body |-> <<>>, ops |-> <<>>]

\* w.Header().Set("Content-Type", v)
HeaderSet(w, v) ==
    [w EXCEPT !.header = v, !.ops = Append(@, <<"Header.Set", v>>)]

\* The first call finalizes the status and fixes the headers that are sent;
\* a later call changes nothing.
FinalizeStatus(w, code) ==
    IF w.wroteHeader THEN w
    ELSE [w EXCEPT !.wroteHeader = TRUE, !.code = code, !.sentHeader = w.header]

\* w.WriteHeader(code)
WriteHeader(w, code) ==
    [FinalizeStatus(w, code) EXCEPT !.ops = Append(@, <<"WriteHeader", code>>)]

\* Whether a response with this status may carry a body (the server refuses
\* body bytes for 1xx, 204 and 304; the recorder records whatever is written).
BodyAllowed(w) ==
    \/ w.kind = "recorder"
    \/ ~(\/ (w.code >= 100 /\ w.code <= 199)
         \/ w.code = 204
         \/ w.code = 304)

\* w.Write(chunk): finalizes the status with 200 if no status was written,
\* then appends the chunk when the status permits a body.
WriteSink(w, chunk) ==
    LET w1 == FinalizeStatus(w, StatusOK)
        w2 == [w1 EXCEPT !.ops = Append(@, <<"Write">>)]
    IN  IF BodyAllowed(w2) THEN [w2 EXCEPT !.body = Append(@, chunk)] ELSE w2

\* Whether w.Write(chunk) returns an error.
WriteFails(w) == ~BodyAllowed(FinalizeStatus(w, StatusOK))

\* ------------------------------------------------------------------------
\* Payloads and their JSON encoding (encoding/json as the helpers use it)
\*
\* A Go string is a sequence of pieces: plain text, the quote, the HTML
\* character "<", or a byte that is not valid UTF-8.  Payload shapes are
\* the ones the handlers send (map[string]string, User, []User), the
\* primitives, and a channel, which encoding/json cannot serialize.
\* ------------------------------------------------------------------------

Quote == "\""
BadByte == "\\xff"
ReplacementRune == "U+FFFD"

GoString(s) == [t |-> "string", s |-> s]
GoInt(n) == [t |-> "int", n |-> n]
GoMap(m) == [t |-> "map", m |-> m]
User(id, name) == [t |-> "User", ID |-> id, Name |-> name]
GoSlice(elems) == [t |-> "slice", elems |-> elems]
GoChan == [t |-> "chan"]

\* All map keys of the model, in the byte order the encoder sorts them in.
KeyOrder == <<"service", "status">>

\* A token of the encoded text: its kind and its text, a sequence of pieces.
Punct(c) == [k |-> "punct", v |-> <<c>>]
Newline == [k |-> "ws", v |-> <<"\n">>]
TextTok(msg) == [k |-> "text", v |-> <<msg>>]

\* Decimal formatting and parsing of the small integers of the model.
Digits == <<"0", "1", "2", "3", "4", "5", "6", "7", "8", "9">>
Itoa(n) == Digits[n + 1]
Atoi(d) == CHOOSE n \in 0..9 : Digits[n + 1] = d

\* The encoder escapes the quote and (EscapeHTML is on by default) "<", and
\* replaces an invalid byte by the escaped replacement rune.
EscapePiece(r) ==
    CASE r = Quote -> "\\\""
      [] r = "<" -> "\\u003c"
      [] r = BadByte -> "\\ufffd"
      [] OTHER -> r

UnescapePiece(e) ==
    CASE e = "\\\"" -> Quote
      [] e = "\\u003c" -> "<"
      [] e = "\\ufffd" -> ReplacementRune
      [] OTHER -> e

StrTok(s) == [k |-> "str", v |-> [i \in 1..Len(s) |-> EscapePiece(s[i])]]
NumTok(n) == [k |-> "num", v |-> <<Itoa(n)>>]

RECURSIVE JoinWith(_, _)
\* The concatenation of the token sequences in parts, sep between them.
JoinWith(parts, sep) ==
    IF Len(parts) = 0 THEN <<>>
    ELSE IF Len(parts) = 1 THEN parts[1]
    ELSE parts[1] \o <<sep>> \o JoinWith(Tail(parts), sep)

SortedKeys(m) == SelectSeq(KeyOrder, LAMBDA k : k \in DOMAIN m)

\* Whether encoding/json can marshal the value.
RECURSIVE Serializable(_)
Serializable(v) ==
    CASE v.t = "chan" -> FALSE
      [] v.t = "slice" -> \A i \in 1..Len(v.elems) : Serializable(v.elems[i])
      [] OTHER -> TRUE

RECURSIVE Marshal(_)
\* The tokens json.Marshal produces for a serializable value.
Marshal(v) ==
    CASE v.t = "string" -> <<StrTok(v.s)>>
      [] v.t = "int" -> <<NumTok(v.n)>>
      [] v.t = "map" ->
            LET ks == SortedKeys(v.m)
                member(k) == <<StrTok(<<k>>), Punct(":"), StrTok(v.m[k])>>
            IN  <<Punct("{")>>
                \o JoinWith([i \in 1..Len(ks) |-> member(ks[i])], Punct(","))
                \o <<Punct("}")>>
      [] v.t = "User" ->
            <<Punct("{"), StrTok(<<"id">>), Punct(":"), NumTok(v.ID), Punct(","),
              StrTok(<<"name">>), Punct(":"), StrTok(v.Name), Punct("}")>>
      [] v.t = "slice" ->
            <<Punct("[")>>
            \o JoinWith([i \in 1..Len(v.elems) |-> Marshal(v.elems[i])], Punct(","))
            \o <<Punct("]")>>

\* json.NewEncoder(w).Encode(v): the marshalled value and a newline, or an
\* error with nothing written.
Encode(v) ==
    IF Serializable(v) THEN [ok |-> TRUE, toks |-> Marshal(v) \o <<Newline>>]
    ELSE [ok |-> FALSE, toks |-> <<>>]

\* ------------------------------------------------------------------------
\* Decoding (json.Unmarshal into a value of the payload's Go type)
\* ------------------------------------------------------------------------

EOF == [k |-> "eof", v |-> <<>>]
Tok(toks, i) == IF i >= 1 /\ i <= Len(toks) THEN toks[i] ELSE EOF
IsPunct(tk, c) == tk.k = "punct" /\ tk.v = <<c>>

Parsed(val, next) == [ok |-> TRUE, val |-> val, next |-> next]
ParseFail == [ok |-> FALSE, val |-> GoChan, next |-> 0]

StrOf(tk) == [i \in 1..Len(tk.v) |-> UnescapePiece(tk.v[i])]

RECURSIVE ParseMapMembers(_, _, _)
\* The members of an object decoded into a map[string]string, from the key
\* at position i, added to acc.
ParseMapMembers(toks, i, acc) ==
    LET key == Tok(toks, i)
        val == Tok(toks, i + 2)
        sep == Tok(toks, i + 3)
    IN  IF key.k = "str" /\ IsPunct(Tok(toks, i + 1), ":") /\ val.k = "str"
        THEN LET m == [x \in DOMAIN acc \cup {StrOf(key)[1]} |->
                          IF x = StrOf(key)[1] THEN StrOf(val) ELSE acc[x]]
             IN  IF IsPunct(sep, ",") THEN ParseMapMembers(toks, i + 4, m)
                 ELSE IF IsPunct(sep, "}") THEN Parsed(GoMap(m), i + 4)
                 ELSE ParseFail
        ELSE ParseFail

ParseMap(toks, i) ==
    IF ~IsPunct(Tok(toks, i), "{") THEN ParseFail
    ELSE IF IsPunct(Tok(toks, i + 1), "}") THEN Parsed(GoMap(<<>>), i + 2)
    ELSE ParseMapMembers(toks, i + 1, <<>>)

RECURSIVE ParseUserMembers(_, _, _)
\* The members of an object decoded into a User: "id" sets ID and "name"
\* sets Name, in whatever order they come.
ParseUserMembers(toks, i, acc) ==
    LET key == Tok(toks, i)
        val == Tok(toks, i + 2)
        sep == Tok(toks, i + 3)
        u == IF key.k = "str" /\ key.v = <<"id">> /\ val.k = "num"
                THEN [acc EXCEPT !.ID = Atoi(val.v[1])]
             ELSE IF key.k = "str" /\ key.v = <<"name">> /\ val.k = "str"
                THEN [acc EXCEPT !.Name = StrOf(val)]
             ELSE acc
    IN  IF key.k = "str" /\ IsPunct(Tok(toks, i + 1), ":") /\ val.k \in {"str", "num"}
        THEN IF IsPunct(sep, ",") THEN ParseUserMembers(toks, i + 4, u)
             ELSE IF IsPunct(sep, "}") THEN Parsed(u, i + 4)
             ELSE ParseFail
        ELSE ParseFail

ParseUser(toks, i) ==
    IF ~IsPunct(Tok(toks, i), "{") THEN ParseFail
    ELSE IF IsPunct(Tok(toks, i + 1), "}") THEN Parsed(User(0, <<>>), i + 2)
    ELSE ParseUserMembers(toks, i + 1, User(0, <<>>))

RECURSIVE ParseUsers(_, _, _)
\* The elements of an array decoded into a []User, from position i.
ParseUsers(toks, i, acc) ==
    LET u == ParseUser(toks, i)
    IN  IF ~u.ok THEN ParseFail
        ELSE IF IsPunct(Tok(toks, u.next), ",")
            THEN ParseUsers(toks, u.next + 1, Append(acc, u.val))
        ELSE IF IsPunct(Tok(toks, u.next), "]")
            THEN Parsed(GoSlice(Append(acc, u.val)), u.next + 1)
        ELSE ParseFail

ParseSlice(toks, i) ==
    IF ~IsPunct(Tok(toks, i), "[") THEN ParseFail
    ELSE IF IsPunct(Tok(toks, i + 1), "]") THEN Parsed(GoSlice(<<>>), i + 2)
    ELSE ParseUsers(toks, i + 1, <<>>)

\* json.Unmarshal(body, &target) for a target of Go type ty: the value
\* decoded, which must be followed by white space only.
Decode(toks, ty) ==
    LET r == CASE ty = "string" ->
                    IF Tok(toks, 1).k = "str"
                    THEN Parsed(GoString(StrOf(toks[1])), 2) ELSE ParseFail
               [] ty = "int" ->
                    IF Tok(toks, 1).k = "num"
                    THEN Parsed(GoInt(Atoi(toks[1].v[1])), 2) ELSE ParseFail
               [] ty = "map" -> ParseMap(toks, 1)
               [] ty = "User" -> ParseUser(toks, 1)
               [] ty = "slice" -> ParseSlice(toks, 1)
               [] OTHER -> ParseFail
    IN  IF r.ok /\ \A j \in r.next..Len(toks) : toks[j].k = "ws" THEN r ELSE ParseFail

\* ------------------------------------------------------------------------
\* http.Error, http.NotFound and the Context helpers
\* ------------------------------------------------------------------------

\* http.Error without its WriteHeader call: the first body write then
\* finalizes the status as 200.
HttpErrorNoWriteHeader(w, msg, code) ==
    WriteSink(HeaderSet(w, ContentTypeText), <<TextTok(msg), Newline>>)

\* http.Error(w, msg, code)
HttpError(w, msg, code) ==
    WriteSink(WriteHeader(HeaderSet(w, ContentTypeText), code),
              <<TextTok(msg), Newline>>)

\* http.NotFound(w, req)
NotFound(w) == HttpError(w, "404 page not found", StatusNotFound)

\* A JSON that writes the body before the status line.
JSONBodyFirst(w, statusCode, data) ==
    LET w1 == HeaderSet(w, ContentTypeJSON)
        enc == Encode(data)
        w2 == IF enc.ok THEN WriteSink(w1, enc.toks) ELSE w1
    IN  WriteHeader(w2, statusCode)

\* Context.JSON(statusCode, data)
JSON(w, statusCode, data) ==
    LET w1 == HeaderSet(w, ContentTypeJSON)
        w2 == WriteHeader(w1, statusCode)
        enc == Encode(data)
    IN  IF enc.ok /\ ~WriteFails(w2) THEN WriteSink(w2, enc.toks)
        ELSE LET w3 == IF enc.ok THEN WriteSink(w2, enc.toks) ELSE w2
             IN  HttpError(w3, "Error encoding JSON response",
                           StatusInternalServerError)

RECURSIVE Sprintf(_, _)
\* fmt.Sprintf(format, values...): format is a sequence of pieces, each a
\* literal text or the verb "%v"; a verb prints the next value.
Sprintf(format, values) ==
    IF Len(format) = 0
    THEN IF Len(values) = 0 THEN <<>> ELSE <<"%!(EXTRA)">>
    ELSE IF Head(format) = "%v"
        THEN IF Len(values) = 0
             THEN <<"%!v(MISSING)">> \o Sprintf(Tail(format), values)
             ELSE <<Head(values)>> \o Sprintf(Tail(format), Tail(values))
        ELSE <<Head(format)>> \o Sprintf(Tail(format), values)

\* A String that writes the body before the header and the status line.
StringBodyFirst(w, statusCode, format, values) ==
    WriteHeader(HeaderSet(WriteSink(w, <<[k |-> "text", v |-> Sprintf(format, values)]>>),
                          ContentTypeText),
                statusCode)

\* Context.String(statusCode, format, values...)
String(w, statusCode, format, values) ==
    WriteSink(WriteHeader(HeaderSet(w, ContentTypeText), statusCode),
              <<[k |-> "text", v |-> Sprintf(format, values)]>>)

\* Context.Status(statusCode)
Status(w, statusCode) == WriteHeader(w, statusCode)

\* The body of the response, all chunks written in order.
RECURSIVE Flatten(_)
Flatten(chunks) ==
    IF Len(chunks) = 0 THEN <<>> ELSE Head(chunks) \o Flatten(Tail(chunks))

\* The number of WriteHeader operations among ops.
RECURSIVE CountWriteHeader(_)
CountWriteHeader(ops) ==
    IF Len(ops) = 0 THEN 0
    ELSE (IF Head(ops)[1] = "WriteHeader" THEN 1 ELSE 0) + CountWriteHeader(Tail(ops))

\* ------------------------------------------------------------------------
\* The application's handlers
\* ------------------------------------------------------------------------

HealthPayload == GoMap([status |-> <<"ok">>, service |-> <<"HTTPGolang_Server">>])
UsersPayload == GoSlice(<<User(1, <<"Hanzala">>), User(2, <<"Areeb">>)>>)
CreatedPayload == GoMap([status |-> <<"user created successfully">>])

HealthCheckHandler(w) == JSON(w, StatusOK, HealthPayload)
GetUsersHandler(w) == JSON(w, StatusOK, UsersPayload)
\* A CreateUserHandler that answers 200.
CreateUserHandlerOK(w) == JSON(w, StatusOK, CreatedPayload)

CreateUserHandler(w) == JSON(w, StatusCreated, CreatedPayload)

AppHandlers == {"HealthCheckHandler", "GetUsersHandler", "CreateUserHandler"}

\* The handlers registrations draw from.
Handlers == {"HealthCheckHandler", "CreateUserHandler"}

\* What running handler h does to the sink of its Context.
HandlerBody(h, w) ==
    CASE h = "HealthCheckHandler" -> HealthCheckHandler(w)
      [] h = "GetUsersHandler" -> GetUsersHandler(w)
      [] h = "CreateUserHandler" -> CreateUserHandler(w)

\* ------------------------------------------------------------------------
\* The Router
\* ------------------------------------------------------------------------

\* Methods GET and POST register under; methods and paths of requests.
RegMethods == {"GET", "POST"}
ReqMethods == {"GET", "POST"}
Paths == {"/health", "/users"}

Registrars == {"r1", "r2"}
Dispatchers == {"d1", "d2"}

Absent == "absent"
\* The nil HandlerFunc: addRoute stores whatever handler it is given.
Nil == "nil"
Keys == RegMethods \X Paths

VARIABLES
    routes,      \* Router.routes: per method, whether its map exists and its entries
    writer,      \* Router.mu: the registrar that holds or awaits the write lock
    readers,     \* Router.mu: the dispatches that hold the read lock
    pc,          \* where each call is
    args,        \* addRoute's method, path and handler, per registrar
    req,         \* ServeHTTP's request (method and URL path), per dispatcher
    handler,     \* ServeHTTP's local handler, per dispatcher
    ctx,         \* ServeHTTP's local ctx: the Context made for the handler, per dispatcher
    invoked,     \* the handlers a dispatch has invoked, in order
    sink,        \* ServeHTTP's response sink w, per dispatcher
    history,     \* per key, the handlers of the registrations that returned, in order
    nRegs,       \* registrations started
    nReqs,       \* dispatches started
    cw,          \* the sink of the Context under test
    cCalls,      \* helper calls made on cw
    cOp,         \* the last helper call: its name, status code and payload
    cBefore,     \* cw as it was before the last helper call
    tableAB,     \* a table on which two registrations are made in one order
    tableBA,     \* the same table, the two registrations made in the other order
    regPair,     \* the two registrations
    orderPc,     \* how many of the two were made
    nRounds,     \* pairs of registrations made so far
    mainPc,      \* where main is
    nRegistered, \* the calls RegisterRoutes has made
    quit,        \* main's channel quit: the signals buffered in it
    proc,        \* the process: running or exited
    logged,      \* the error log.Fatalf printed, if any
    srvState,    \* the http.Server: none, new, serving or closed
    inShutdown,  \* the http.Server's inShutdown flag, set by Shutdown
    startPc,     \* where the goroutine calling Server.Start is
    lasErr,      \* the error ListenAndServe returned
    startResult, \* the error Start returned
    stopPc,      \* where the call of Server.Stop is
    stopResult   \* the error Stop returned

routerVars == <<routes, writer, readers, pc, args, req, handler, ctx, invoked, sink,
                history, nRegs, nReqs>>
ctxVars == <<cw, cCalls, cOp, cBefore>>
orderVars == <<tableAB, tableBA, regPair, orderPc, nRounds>>
appVars == <<mainPc, nRegistered, quit, proc, logged, srvState, inShutdown,
             startPc, lasErr, startResult, stopPc, stopResult>>
vars == <<routes, writer, readers, pc, args, req, handler, ctx, invoked, sink,
          history, nRegs, nReqs, cw, cCalls, cOp, cBefore,
          tableAB, tableBA, regPair, orderPc, nRounds,
          mainPc, nRegistered, quit, proc, logged, srvState, inShutdown,
          startPc, lasErr, startResult, stopPc, stopResult>>

\* make(map[string]HandlerFunc)
EmptyPathMap == [exists |-> TRUE, entries |-> [p \in Paths |-> Absent]]
\* The nil map r.routes[method] yields for a method never registered.
NilPathMap == [exists |-> FALSE, entries |-> [p \in Paths |-> Absent]]

\* router.New()
New == [m \in ReqMethods |-> NilPathMap]

NoArgs == [method |-> None, path |-> None, handler |-> None]
NoReq == [method |-> None, path |-> None]
\* No Context: ServeHTTP has made none.
NoCtx == [Writer |-> None, Request |-> NoReq]
NoOp == [name |-> None, status |-> 0, data |-> GoChan]

RouterInit ==
    /\ routes = New
    /\ writer = None
    /\ readers = {}
    /\ pc = [x \in Registrars \cup Dispatchers |-> "idle"]
    /\ args = [r \in Registrars |-> NoArgs]
    /\ req = [d \in Dispatchers |-> NoReq]
    /\ handler = [d \in Dispatchers |-> None]
    /\ ctx = [d \in Dispatchers |-> NoCtx]
    /\ invoked = [d \in Dispatchers |-> <<>>]
    /\ sink = [d \in Dispatchers |-> NewSink("server")]
    /\ history = [key \in Keys |-> <<>>]
    /\ nRegs = 0
    /\ nReqs = 0

CtxInit ==
    /\ cw = NewSink("recorder")
    /\ cCalls = 0
    /\ cOp = NoOp
    /\ cBefore = cw

\* Two routers from router.New(), no registration made on them yet.
OrderInit ==
    /\ tableAB = New
    /\ tableBA = New
    /\ regPair = <<NoArgs, NoArgs>>
    /\ orderPc = 0
    /\ nRounds = 0

\* The process as it starts: main has run nothing, there is no Server.
AppInit ==
    /\ mainPc = "New"
    /\ nRegistered = 0
    /\ quit = <<>>
    /\ proc = "running"
    /\ logged = None
    /\ srvState = "none"
    /\ inShutdown = FALSE
    /\ startPc = "none"
    /\ lasErr = None
    /\ startResult = None
    /\ stopPc = "none"
    /\ stopResult = None

Init == RouterInit /\ CtxInit /\ OrderInit /\ AppInit

\* ---- addRoute -----------------------------------------------------------

\* The handler registered last for key, Absent when none was.
LastRegistered(key) ==
    IF Len(history[key]) = 0 THEN Absent ELSE history[key][Len(history[key])]

\* addRoute(method, path, handler) is called.
addRouteCall(r, method, path, h) ==
    /\ pc[r] = "idle"
    /\ nRegs < MaxRegs
    /\ nRegs' = nRegs + 1
    /\ args' = [args EXCEPT ![r] = [method |-> method, path |-> path, handler |-> h]]
    /\ pc' = [pc EXCEPT ![r] = "Lock"]
    /\ UNCHANGED <<routes, writer, readers, req, handler, ctx, invoked, sink, history, nReqs>>

\* Router.GET(path, handler)
GET(r, path, h) == addRouteCall(r, "GET", path, h)

\* Router.POST(path, handler)
POST(r, path, h) == addRouteCall(r, "POST", path, h)

\* Whether mu.Lock() may announce its writer: no other writer holds or
\* awaits the lock.
LockFree(w) == w = None

\* r.mu.Lock(), first half: the writer announces itself; from now on new
\* readers wait.
addRouteLock(r) ==
    /\ pc[r] = "Lock"
    /\ LockFree(writer)
    /\ writer' = r
    /\ pc' = [pc EXCEPT ![r] = "LockWait"]
    /\ UNCHANGED <<routes, readers, args, req, handler, ctx, invoked, sink, history,
                   nRegs, nReqs>>

\* Whether the announced writer may go on: the readers have left.
ReadersGone(rs) == rs = {}

\* r.mu.Lock(), second half: the writer has the lock once the readers that
\* held it have released it.
addRouteLocked(r) ==
    /\ pc[r] = "LockWait"
    /\ ReadersGone(readers)
    /\ pc' = [pc EXCEPT ![r] = "ensure"]
    /\ UNCHANGED <<routes, writer, readers, args, req, handler, ctx, invoked, sink,
                   history, nRegs, nReqs>>

\* A nil check that makes a new map for the method every time.
EnsureMethodMapFresh(rt, method) == [rt EXCEPT ![method] = EmptyPathMap]

\* The table after `if r.routes[method] == nil { r.routes[method] = make(...) }`.
EnsureMethodMap(rt, method) ==
    IF rt[method].exists THEN rt ELSE [rt EXCEPT ![method] = EmptyPathMap]

\* The nil check on r.routes[method], and the map made when it is nil.
addRouteEnsure(r) ==
    /\ pc[r] = "ensure"
    /\ routes' = EnsureMethodMap(routes, args[r].method)
    /\ pc' = [pc EXCEPT ![r] = "store"]
    /\ UNCHANGED <<writer, readers, args, req, handler, ctx, invoked, sink, history,
                   nRegs, nReqs>>

\* A store that sets every path of the method to the handler.
StoreRouteWholeMethod(rt, method, path, h) ==
    [rt EXCEPT ![method].entries = [p \in Paths |-> h]]

\* A store that keeps the handler a key already has (first write wins).
StoreRouteIfAbsent(rt, method, path, h) ==
    IF rt[method].entries[path] = Absent
    THEN [rt EXCEPT ![method].entries[path] = h] ELSE rt

\* The table after r.routes[method][path] = handler.
StoreRoute(rt, method, path, h) ==
    [rt EXCEPT ![method].entries[path] = h]

\* r.routes[method][path] = handler
addRouteStore(r) ==
    /\ pc[r] = "store"
    /\ routes' = StoreRoute(routes, args[r].method, args[r].path, args[r].handler)
    /\ pc' = [pc EXCEPT ![r] = "Unlock"]
    /\ UNCHANGED <<writer, readers, args, req, handler, ctx, invoked, sink, history,
                   nRegs, nReqs>>

\* An Unlock that leaves the lock held.
ReleaseWriteForgotten(w) == w

\* The write lock's holder after mu.Unlock().
ReleaseWrite(w) == None

\* The deferred r.mu.Unlock(), and addRoute returns.
addRouteUnlock(r) ==
    /\ pc[r] = "Unlock"
    /\ writer' = ReleaseWrite(writer)
    /\ history' = [history EXCEPT ![<<args[r].method, args[r].path>>] =
                      Append(@, args[r].handler)]
    /\ args' = [args EXCEPT ![r] = NoArgs]
    /\ pc' = [pc EXCEPT ![r] = "idle"]
    /\ UNCHANGED <<routes, readers, req, handler, ctx, invoked, sink,
                   nRegs, nReqs>>

\* ---- ServeHTTP ----------------------------------------------------------

InFlight(r) == pc[r] # "idle"

\* ServeHTTP(w, req) is called by the server with the response w of a new
\* request.
ServeHTTPCall(d, method, path) ==
    /\ pc[d] = "idle"
    /\ nReqs < MaxReqs
    /\ nReqs' = nReqs + 1
    /\ req' = [req EXCEPT ![d] = [method |-> method, path |-> path]]
    /\ sink' = [sink EXCEPT ![d] = NewSink("server")]
    /\ pc' = [pc EXCEPT ![d] = "RLock"]
    /\ UNCHANGED <<routes, writer, readers, args, handler, ctx, invoked, history, nRegs>>

\* A read lock that does not wait for the writer.
RLockReadyAlways(w) == TRUE

\* Whether mu.RLock() may go on: no writer holds or awaits the lock.
RLockReady(w) == w = None

\* r.mu.RLock()
ServeHTTPRLock(d) ==
    /\ pc[d] = "RLock"
    /\ RLockReady(writer)
    /\ readers' = readers \cup {d}
    /\ pc' = [pc EXCEPT ![d] = "lookupMethod"]
    /\ UNCHANGED <<routes, writer, args, req, handler, ctx, invoked, sink, history,
                   nRegs, nReqs>>

\* A method lookup that ignores the method: the entries of all methods.
MethodMapAnyMethod(rt, method) ==
    [exists |-> \E m \in ReqMethods : rt[m].exists,
     entries |-> [p \in Paths |->
        IF rt[method].entries[p] # Absent THEN rt[method].entries[p]
        ELSE IF \E m \in ReqMethods : rt[m].entries[p] # Absent
             THEN rt[CHOOSE m \in ReqMethods : rt[m].entries[p] # Absent].entries[p]
             ELSE Absent]]

\* pathHandlers, ok := r.routes[req.Method]: a method that never was a key
\* of the map yields the nil map and ok = false.
MethodMap(rt, method) ==
    IF method \in DOMAIN rt THEN rt[method] ELSE NilPathMap

\* A path lookup that takes whatever entry the map holds (no exact match).
PathEntryAnyPath(pathHandlers, path) ==
    IF \E p \in Paths : pathHandlers.entries[p] # Absent
    THEN pathHandlers.entries[CHOOSE p \in Paths : pathHandlers.entries[p] # Absent]
    ELSE Absent

\* handler, ok := pathHandlers[req.URL.Path]: a path that never was a key
\* of the map yields ok = false.
PathEntry(pathHandlers, path) ==
    IF path \in DOMAIN pathHandlers.entries THEN pathHandlers.entries[path] ELSE Absent

\* A Context kept in one place and handed to every request: it wraps the
\* sink of whichever request it was made for first.
ContextShared(w, request) ==
    [Writer |-> CHOOSE d \in Dispatchers : TRUE, Request |-> request]

\* ctx := &httpcontext.Context{Writer: w, Request: req}
Context(w, request) == [Writer |-> w, Request |-> request]

\* The method lookup: without a map for the method, 404 and return.
ServeHTTPLookupMethod(d) ==
    /\ pc[d] = "lookupMethod"
    /\ IF MethodMap(routes, req[d].method).exists
       THEN /\ pc' = [pc EXCEPT ![d] = "lookupPath"]
            /\ UNCHANGED sink
       ELSE /\ sink' = [sink EXCEPT ![d] = NotFound(@)]
            /\ pc' = [pc EXCEPT ![d] = "RUnlock"]
    /\ UNCHANGED <<routes, writer, readers, args, req, handler, ctx, invoked, history,
                   nRegs, nReqs>>

\* The path lookup (pathHandlers refers to the map stored in the table, so
\* it is read there): without an entry, 404 and return; with one, the
\* Context is made and the handler called.
ServeHTTPLookupPath(d) ==
    LET h == PathEntry(MethodMap(routes, req[d].method), req[d].path)
    IN  /\ pc[d] = "lookupPath"
        /\ IF h # Absent
           THEN /\ handler' = [handler EXCEPT ![d] = h]
                /\ ctx' = [ctx EXCEPT ![d] = Context(d, req[d])]
                /\ invoked' = [invoked EXCEPT ![d] = Append(@, h)]
                /\ pc' = [pc EXCEPT ![d] = "handler"]
                /\ UNCHANGED sink
           ELSE /\ sink' = [sink EXCEPT ![d] = NotFound(@)]
                /\ pc' = [pc EXCEPT ![d] = "RUnlock"]
                /\ UNCHANGED <<handler, ctx, invoked>>
        /\ UNCHANGED <<routes, writer, readers, args, req, history,
                       nRegs, nReqs>>

\* handler(ctx) runs and returns: it writes to the sink its Context wraps.
ServeHTTPHandler(d) ==
    /\ pc[d] = "handler"
    /\ handler[d] # Nil
    /\ sink' = [sink EXCEPT ![ctx[d].Writer] = HandlerBody(handler[d], @)]
    /\ pc' = [pc EXCEPT ![d] = "RUnlock"]
    /\ UNCHANGED <<routes, writer, readers, args, req, handler, ctx, invoked, history,
                   nRegs, nReqs>>

\* handler(ctx) with a nil handler: the call of a nil func panics (nil
\* pointer dereference).  ServeHTTP unwinds, its deferred call still to run.
ServeHTTPHandlerPanics(d) ==
    /\ pc[d] = "handler"
    /\ handler[d] = Nil
    /\ pc' = [pc EXCEPT ![d] = "panic"]
    /\ UNCHANGED <<routes, writer, readers, args, req, handler, ctx, invoked, sink,
                   history, nRegs, nReqs>>

\* A deferred RUnlock that is never run.
ReleaseReadForgotten(rs, d) == rs

\* The read lock's holders after d's mu.RUnlock().
ReleaseRead(rs, d) == rs \ {d}

\* The deferred r.mu.RUnlock(), run when ServeHTTP returns and when it
\* unwinds in a panic; then ServeHTTP has ended and its locals are gone.
ServeHTTPRUnlock(d) ==
    /\ pc[d] \in {"RUnlock", "panic"}
    /\ readers' = ReleaseRead(readers, d)
    /\ pc' = [pc EXCEPT ![d] = "idle"]
    /\ req' = [req EXCEPT ![d] = NoReq]
    /\ handler' = [handler EXCEPT ![d] = None]
    /\ ctx' = [ctx EXCEPT ![d] = NoCtx]
    /\ invoked' = [invoked EXCEPT ![d] = <<>>]
    /\ sink' = [sink EXCEPT ![d] = NewSink("server")]
    /\ UNCHANGED <<routes, writer, args, history, nRegs, nReqs>>

RegistrarStep(r) ==
    \/ addRouteLock(r)
    \/ addRouteLocked(r)
    \/ addRouteEnsure(r)
    \/ addRouteStore(r)
    \/ addRouteUnlock(r)

DispatcherStep(d) ==
    \/ ServeHTTPRLock(d)
    \/ ServeHTTPLookupMethod(d)
    \/ ServeHTTPLookupPath(d)
    \/ ServeHTTPHandler(d)
    \/ ServeHTTPRUnlock(d)

\* The calls made with paths from ps and handlers from hs.
Calls(ps, hs) ==
    \/ \E r \in Registrars, path \in ps, h \in hs : GET(r, path, h)
    \/ \E r \in Registrars, path \in ps, h \in hs : POST(r, path, h)
    \/ \E d \in Dispatchers, method \in ReqMethods, path \in ps :
          ServeHTTPCall(d, method, path)

\* The steps of the calls that have started.
Steps ==
    \/ \E r \in Registrars : RegistrarStep(r)
    \/ \E d \in Dispatchers : DispatcherStep(d)

Next ==
    /\ UNCHANGED <<ctxVars, orderVars, appVars>>
    /\ (Calls(Paths, Handlers) \/ Steps)

Spec == Init /\ [][Next]_vars

\* The progress steps of calls that have started.  A goroutine that can run
\* is eventually run, and a handler that was invoked returns.
Step == UNCHANGED <<ctxVars, orderVars, appVars>> /\ Steps

\* The lock protocol reads neither paths nor handlers: the fair
\* specification makes its calls on one path with one handler.
FairPaths == {"/health"}
FairHandlers == {"HealthCheckHandler"}

FairNext ==
    /\ UNCHANGED <<ctxVars, orderVars, appVars>>
    /\ (Calls(FairPaths, FairHandlers) \/ Steps)

FairSpec == Init /\ [][FairNext]_vars /\ WF_vars(Step)

\* addRoute checks none of its arguments: the handlers of these
\* registrations include the nil HandlerFunc.
AnyHandlers == {"HealthCheckHandler", Nil}

AnyHandlerNext ==
    /\ UNCHANGED <<ctxVars, orderVars, appVars>>
    /\ \/ Calls(Paths, AnyHandlers)
       \/ Steps
       \/ \E d \in Dispatchers : ServeHTTPHandlerPanics(d)

AnyHandlerSpec == Init /\ [][AnyHandlerNext]_vars

\* ---- Two registrations, in either order ---------------------------------

MaxRounds == 2

\* The table a whole addRoute(method, path, handler) call leaves, run with
\* no other call in between.
addRoute(rt, method, path, h) ==
    StoreRoute(EnsureMethodMap(rt, method), method, path, h)

\* What a whole ServeHTTP call does on table rt for a request: the handlers
\* it invokes and the response in its sink.
ServeHTTP(rt, method, path) ==
    LET pathHandlers == MethodMap(rt, method)
        h == PathEntry(pathHandlers, path)
    IN  IF ~pathHandlers.exists \/ h = Absent
        THEN [invoked |-> <<>>, sink |-> NotFound(NewSink("server"))]
        ELSE [invoked |-> <<h>>, sink |-> HandlerBody(h, NewSink("server"))]

\* The registrations the pairs are drawn from.
Registrations ==
    {[method |-> m, path |-> p, handler |-> h] : m \in RegMethods, p \in Paths, h \in Handlers}

\* Two registrations are chosen; both routers hold the table the first
\* router has by now.
OrderStart(reg1, reg2) ==
    /\ orderPc \in {0, 2}
    /\ nRounds < MaxRounds
    /\ nRounds' = nRounds + 1
    /\ regPair' = <<reg1, reg2>>
    /\ tableBA' = tableAB
    /\ orderPc' = 0
    /\ UNCHANGED tableAB

\* One router registers the first of the pair, the other the second.
OrderFirst ==
    /\ orderPc = 0 /\ regPair[1] # NoArgs
    /\ tableAB' = addRoute(tableAB, regPair[1].method, regPair[1].path, regPair[1].handler)
    /\ tableBA' = addRoute(tableBA, regPair[2].method, regPair[2].path, regPair[2].handler)
    /\ orderPc' = 1
    /\ UNCHANGED <<regPair, nRounds>>

\* Each router registers the one of the pair it has not registered yet.
OrderSecond ==
    /\ orderPc = 1
    /\ tableAB' = addRoute(tableAB, regPair[2].method, regPair[2].path, regPair[2].handler)
    /\ tableBA' = addRoute(tableBA, regPair[1].method, regPair[1].path, regPair[1].handler)
    /\ orderPc' = 2
    /\ UNCHANGED <<regPair, nRounds>>

OrderNext ==
    /\ UNCHANGED <<routerVars, ctxVars, appVars>>
    /\ \/ \E reg1, reg2 \in Registrations : OrderStart(reg1, reg2)
       \/ OrderFirst
       \/ OrderSecond

OrderSpec == Init /\ [][OrderNext]_vars

\* ------------------------------------------------------------------------
\* The Server and main
\*   mainPc   New, RegisterRoutes, server.New, go, quit (blocked in <-quit),
\*            shutdown, returned
\*   startPc  none, Start, Serve (blocked in ListenAndServe, serving),
\*            ListenAndServeReturned, returned, done, fatal
\*   stopPc   none, Shutdown, returned
\* ------------------------------------------------------------------------

\* The goroutine of main, which makes the registrations.
Main == "r1"

\* The calls RegisterRoutes makes, in order.
RegisterRoutes ==
    << [method |-> "GET", path |-> "/health", handler |-> "HealthCheckHandler"],
       [method |-> "GET", path |-> "/users", handler |-> "GetUsersHandler"],
       [method |-> "POST", path |-> "/users", handler |-> "CreateUserHandler"] >>

\* Methods and paths of the requests the server receives.
AppMethods == {"GET", "POST", "DELETE"}
AppPaths == Paths \cup {"/non-existent-route"}

\* http.ErrServerClosed, and the other errors ListenAndServe returns: from
\* net.Listen (the address cannot be bound) and from Accept.
ErrServerClosed == "http: Server closed"
ListenErrors == {"listen tcp :8080: bind: address already in use"}
ServeErrors == {"accept tcp [::]:8080: accept4: too many open files"}
\* The error of a context whose deadline has passed.
DeadlineExceeded == "context deadline exceeded"

\* The channels registered with signal.Notify: main registers none.
SignalNotifyQuit == {"quit"}
SignalNotify == {}

\* The router's variables but for the table.
routerRest == <<writer, readers, pc, args, req, handler, ctx, invoked, sink,
                history, nRegs, nReqs>>

\* The statements of main, one at a time.  RegisterRoutes returns when its
\* three calls have; <-quit goes on only when the channel holds a signal.
main ==
    /\ proc = "running"
    /\ CASE mainPc = "New" ->
              /\ routes' = New
              /\ mainPc' = "RegisterRoutes"
              /\ UNCHANGED <<routerRest, nRegistered, quit, proc, logged, srvState,
                             inShutdown, startPc, lasErr, startResult, stopPc,
                             stopResult>>
         [] mainPc = "RegisterRoutes" ->
              /\ nRegistered = Len(RegisterRoutes)
              /\ pc[Main] = "idle"
              /\ mainPc' = "server.New"
              /\ UNCHANGED <<routerVars, nRegistered, quit, proc, logged, srvState,
                             inShutdown, startPc, lasErr, startResult, stopPc,
                             stopResult>>
         [] mainPc = "server.New" ->
              /\ srvState' = "new"
              /\ mainPc' = "go"
              /\ UNCHANGED <<routerVars, nRegistered, quit, proc, logged,
                             inShutdown, startPc, lasErr, startResult, stopPc,
                             stopResult>>
         [] mainPc = "go" ->
              /\ startPc' = "Start"
              /\ mainPc' = "quit"
              /\ UNCHANGED <<routerVars, nRegistered, quit, proc, logged, srvState,
                             inShutdown, lasErr, startResult, stopPc, stopResult>>
         [] mainPc = "quit" ->
              /\ Len(quit) > 0
              /\ quit' = Tail(quit)
              /\ mainPc' = "shutdown"
              /\ UNCHANGED <<routerVars, nRegistered, proc, logged, srvState,
                             inShutdown, startPc, lasErr, startResult, stopPc,
                             stopResult>>
         [] mainPc = "shutdown" ->
              /\ mainPc' = "returned"
              /\ proc' = "exited"
              /\ UNCHANGED <<routerVars, nRegistered, quit, logged, srvState,
                             inShutdown, startPc, lasErr, startResult, stopPc,
                             stopResult>>
         [] OTHER -> FALSE

\* RegisterRoutes makes its next call: r.GET or r.POST calls addRoute.
RegisterRoutesCall ==
    /\ proc = "running"
    /\ mainPc = "RegisterRoutes"
    /\ pc[Main] = "idle"
    /\ nRegistered < Len(RegisterRoutes)
    /\ args' = [args EXCEPT ![Main] = RegisterRoutes[nRegistered + 1]]
    /\ pc' = [pc EXCEPT ![Main] = "Lock"]
    /\ nRegistered' = nRegistered + 1
    /\ UNCHANGED <<routes, writer, readers, req, handler, ctx, invoked, sink, history,
                   nRegs, nReqs>>
    /\ UNCHANGED <<mainPc, quit, proc, logged, srvState, inShutdown, startPc, lasErr,
                   startResult, stopPc, stopResult>>

\* s.httpServer.ListenAndServe() is called: it returns ErrServerClosed at
\* once after a Shutdown, returns the error of net.Listen when the address
\* cannot be bound, and otherwise serves.
ListenAndServe ==
    /\ proc = "running"
    /\ startPc = "Start"
    /\ \E err \in ListenErrors \cup {None} :
          IF inShutdown
          THEN /\ lasErr' = ErrServerClosed
               /\ startPc' = "ListenAndServeReturned"
               /\ UNCHANGED srvState
          ELSE IF err # None
          THEN /\ lasErr' = err
               /\ startPc' = "ListenAndServeReturned"
               /\ UNCHANGED srvState
          ELSE /\ srvState' = "serving"
               /\ startPc' = "Serve"
               /\ UNCHANGED lasErr
    /\ UNCHANGED <<routerVars, mainPc, nRegistered, quit, proc, logged, inShutdown,
                   startResult, stopPc, stopResult>>

\* The server hands a request to Router.ServeHTTP.
Request(d, method, path) ==
    /\ proc = "running"
    /\ srvState = "serving"
    /\ ~inShutdown
    /\ ServeHTTPCall(d, method, path)
    /\ UNCHANGED appVars

\* The calls of the router that have started go on while the process runs.
RouterSteps ==
    /\ proc = "running"
    /\ Steps
    /\ UNCHANGED appVars

\* ListenAndServe stops serving and returns: ErrServerClosed after a
\* Shutdown, the error of Accept otherwise.
ServeReturns ==
    /\ proc = "running"
    /\ startPc = "Serve"
    /\ \E err \in ServeErrors :
          lasErr' = IF inShutdown THEN ErrServerClosed ELSE err
    /\ srvState' = "closed"
    /\ startPc' = "ListenAndServeReturned"
    /\ UNCHANGED <<routerVars, mainPc, nRegistered, quit, proc, logged, inShutdown,
                   startResult, stopPc, stopResult>>

\* A Start that returns whatever ListenAndServe returned.
StartResultRaw(err) == err

\* What Start returns for the error ListenAndServe returned:
\* `if err != nil && err != http.ErrServerClosed { return err }; return nil`.
StartResult(err) ==
    IF err # None /\ err # ErrServerClosed THEN err ELSE None

\* Server.Start returns.
StartReturn ==
    /\ proc = "running"
    /\ startPc = "ListenAndServeReturned"
    /\ startResult' = StartResult(lasErr)
    /\ startPc' = "returned"
    /\ UNCHANGED <<routerVars, mainPc, nRegistered, quit, proc, logged, srvState,
                   inShutdown, lasErr, stopPc, stopResult>>

\* main's goroutine, after s.Start(): `if err != nil { log.Fatalf(...) }`
\* prints the error and exits the process; with nil the goroutine ends.
StartCaller ==
    /\ proc = "running"
    /\ startPc = "returned"
    /\ IF startResult # None
       THEN /\ logged' = startResult
            /\ proc' = "exited"
            /\ startPc' = "fatal"
       ELSE /\ startPc' = "done"
            /\ UNCHANGED <<logged, proc>>
    /\ UNCHANGED <<routerVars, mainPc, nRegistered, quit, srvState, inShutdown,
                   lasErr, startResult, stopPc, stopResult>>

\* The process gets an interrupt signal.  It is sent on the channels
\* registered with signal.Notify (dropped when the buffer of one is full);
\* with none registered the signal ends the process.
Interrupt ==
    /\ proc = "running"
    /\ IF "quit" \in SignalNotify
       THEN /\ quit' = IF Len(quit) < 1 THEN Append(quit, "interrupt") ELSE quit
            /\ UNCHANGED proc
       ELSE /\ proc' = "exited"
            /\ UNCHANGED quit
    /\ UNCHANGED <<routerVars, mainPc, nRegistered, logged, srvState, inShutdown,
                   startPc, lasErr, startResult, stopPc, stopResult>>

\* Server.Stop(ctx) is called by whoever holds the Server: Shutdown sets
\* inShutdown and closes the listener.
StopCall ==
    /\ proc = "running"
    /\ srvState # "none"
    /\ stopPc = "none"
    /\ inShutdown' = TRUE
    /\ stopPc' = "Shutdown"
    /\ UNCHANGED <<routerVars, mainPc, nRegistered, quit, proc, logged, srvState,
                   startPc, lasErr, startResult, stopResult>>

\* Shutdown returns: nil once no request is in flight, the error of ctx when
\* its deadline passes first.
StopReturn ==
    /\ proc = "running"
    /\ stopPc = "Shutdown"
    /\ stopResult' = IF \A d \in Dispatchers : pc[d] = "idle"
                     THEN None ELSE DeadlineExceeded
    /\ stopPc' = "returned"
    /\ UNCHANGED <<routerVars, mainPc, nRegistered, quit, proc, logged, srvState,
                   inShutdown, startPc, lasErr, startResult>>

\* The application as main wires it.
AppSteps ==
    \/ main
    \/ RegisterRoutesCall
    \/ RouterSteps
    \/ ListenAndServe
    \/ \E d \in Dispatchers, method \in AppMethods, path \in AppPaths :
          Request(d, method, path)
    \/ ServeReturns
    \/ StartReturn
    \/ StartCaller
    \/ Interrupt

AppNext == UNCHANGED <<ctxVars, orderVars>> /\ AppSteps

AppSpec == Init /\ [][AppNext]_vars

\* The Server with a holder that may call Stop.
ServerNext ==
    /\ UNCHANGED <<ctxVars, orderVars>>
    /\ (AppSteps \/ StopCall \/ StopReturn)

ServerSpec == Init /\ [][ServerNext]_vars

\* ------------------------------------------------------------------------
\* Properties of the Router
\* ------------------------------------------------------------------------

\* The handler the table holds for (method, path), Absent when none.
Stored(method, path) == routes[method].entries[path]
IsRegistered(method, path) == routes[method].exists /\ Stored(method, path) # Absent
RegisteredKeys == {key \in Keys : IsRegistered(key[1], key[2])}

\* The dispatch has finished its lookup and not yet released the lock.
LookedUp(d) == pc[d] \in {"handler", "RUnlock"}
\* The dispatch has done all of ServeHTTP's body.
Finished(d) == pc[d] = "RUnlock"
\* The registration holds the write lock.
InCritical(r) == pc[r] \in {"ensure", "store", "Unlock"}

\* C1: a dispatch whose (method, path) is registered invokes the handler
\* stored for that pair exactly once and no other handler, whatever other
\* routes the table holds.
C1_RegisteredHandlerInvokedOnce ==
    \A d \in Dispatchers :
        (LookedUp(d) /\ IsRegistered(req[d].method, req[d].path))
        => /\ invoked[d] = <<Stored(req[d].method, req[d].path)>>
           /\ Finished(d) =>
                sink[d] = HandlerBody(Stored(req[d].method, req[d].path),
                                      NewSink("server"))

C1_Witness ==
    \E d \in Dispatchers :
        /\ Finished(d)
        /\ IsRegistered(req[d].method, req[d].path)
        /\ Len(invoked[d]) = 1
        /\ \E key \in RegisteredKeys :
              /\ key # <<req[d].method, req[d].path>>
              /\ Stored(key[1], key[2]) # invoked[d][1]

\* C2: a dispatch whose (method, path) is not in the table answers 404 and
\* invokes no handler, and a missing method and a missing path under a
\* registered method give the same response.
C2_UnregisteredIs404 ==
    /\ \A d \in Dispatchers :
          (Finished(d) /\ ~IsRegistered(req[d].method, req[d].path))
          => /\ sink[d].code = StatusNotFound
             /\ invoked[d] = <<>>
    /\ \A d1, d2 \in Dispatchers :
          (/\ Finished(d1) /\ ~routes[req[d1].method].exists
           /\ Finished(d2) /\ routes[req[d2].method].exists
           /\ ~IsRegistered(req[d2].method, req[d2].path))
          => sink[d1] = sink[d2]

C2_Witness ==
    \E d1, d2 \in Dispatchers :
        /\ Finished(d1) /\ ~routes[req[d1].method].exists
        /\ Finished(d2) /\ routes[req[d2].method].exists
        /\ ~IsRegistered(req[d2].method, req[d2].path)
        /\ sink[d1].code = StatusNotFound

\* The path of d's request is registered, but only under another method.
OnlyUnderOtherMethod(d) ==
    /\ ~IsRegistered(req[d].method, req[d].path)
    /\ \E m \in RegMethods : m # req[d].method /\ IsRegistered(m, req[d].path)

\* C3: a dispatch whose path is registered only under another method
\* answers 404, never 405, and does not invoke that method's handler,
\* whether or not its own method has registrations for other paths.
C3_WrongMethodIs404 ==
    \A d \in Dispatchers :
        (Finished(d) /\ OnlyUnderOtherMethod(d))
        => /\ sink[d].code = StatusNotFound
           /\ sink[d].code # StatusMethodNotAllowed
           /\ \A m \in RegMethods :
                 \A i \in 1..Len(invoked[d]) : invoked[d][i] # Stored(m, req[d].path)

C3_Witness ==
    \E d \in Dispatchers :
        /\ Finished(d) /\ OnlyUnderOtherMethod(d)
        /\ routes[req[d].method].exists
        /\ \E p \in Paths : IsRegistered(req[d].method, p)

\* C4: once a key was registered twice, a dispatch for it invokes only the
\* handler registered last, never the earlier one, and the table holds the
\* one entry of the last registration for the key.
C4_LastWriteWins ==
    \A key \in Keys :
        Len(history[key]) >= 2
        => /\ \A d \in Dispatchers :
                 (LookedUp(d) /\ <<req[d].method, req[d].path>> = key)
                 => invoked[d] = <<LastRegistered(key)>>
           /\ (\A r \in Registrars : ~InCritical(r))
                 => Stored(key[1], key[2]) = LastRegistered(key)

C4_Witness ==
    \E key \in Keys, d \in Dispatchers :
        /\ Len(history[key]) = 2
        /\ history[key][1] # history[key][2]
        /\ Finished(d) /\ <<req[d].method, req[d].path>> = key
        /\ invoked[d] = <<history[key][2]>>

\* C5: no handler runs while its dispatch still holds the read lock (the
\* lock is released before the handler is invoked).
C5_HandlerRunsOutsideLock ==
    \A d \in Dispatchers : pc[d] = "handler" => d \notin readers

\* C6: a dispatch never reads the table while a registration mutates it,
\* no two registrations mutate it at once, and whenever no registration is
\* inside addRoute's critical section the table holds exactly the keys
\* whose registrations returned, each once, with the handler registered last.
C6_NoRaceNoLostEntry ==
    /\ \A r \in Registrars, d \in Dispatchers :
          ~(pc[r] \in {"ensure", "store"} /\ pc[d] \in {"lookupMethod", "lookupPath"})
    /\ \A r1, r2 \in Registrars :
          (InCritical(r1) /\ InCritical(r2)) => r1 = r2
    /\ (\A r \in Registrars : ~InCritical(r))
          => /\ \A key \in Keys : Stored(key[1], key[2]) = LastRegistered(key)
             /\ Cardinality(RegisteredKeys)
                  = Cardinality({key \in Keys : Len(history[key]) > 0})

C6_Witness ==
    /\ \E r \in Registrars : pc[r] = "LockWait"
    /\ \E d \in Dispatchers : pc[d] \in {"lookupMethod", "lookupPath"}
    /\ \A r \in Registrars : ~InCritical(r)
    /\ Cardinality(RegisteredKeys) >= 1

\* C7: under fair scheduling, with handlers that return, every Register
\* and every ServeHTTP call that started returns.
C7_EveryCallReturns ==
    \A x \in Registrars \cup Dispatchers : (pc[x] # "idle") ~> (pc[x] = "idle")

C7_Witness ==
    \E r \in Registrars, d1, d2 \in Dispatchers :
        /\ pc[r] = "LockWait"
        /\ pc[d1] = "handler"
        /\ pc[d2] = "RLock"

\* C13: ServeHTTP never ends in a panic: whatever registrations built the
\* table (addRoute validates nothing) and whatever the request, a dispatch
\* that has done ServeHTTP's body has invoked a stored handler or written 404.
C13_ServeHTTPNeverPanics ==
    \A d \in Dispatchers :
        /\ pc[d] # "panic"
        /\ Finished(d) => (Len(invoked[d]) = 1 \/ sink[d].code = StatusNotFound)

\* C15: the table changes only through registration.  A step changes the
\* entry of a key only when it is addRoute's store for that very key, which
\* sets it to the handler registered; every other entry stays as it was; no
\* step of ServeHTTP changes the table; no key that is registered stops
\* being registered.
C15_TableChangesOnlyByRegistration ==
    [][/\ routes' # routes
             => /\ \E r \in Registrars :
                      pc[r] \in {"ensure", "store"} /\ pc'[r] # pc[r]
                /\ \A key \in Keys :
                      IsRegistered(key[1], key[2]) => IsRegistered(key[1], key[2])'
                /\ \A key \in Keys :
                      Stored(key[1], key[2])' # Stored(key[1], key[2])
                      => \E r \in Registrars :
                            /\ pc[r] = "store" /\ pc'[r] = "Unlock"
                            /\ key = <<args[r].method, args[r].path>>
                            /\ Stored(key[1], key[2])' = args[r].handler
       /\ (\E d \in Dispatchers : pc'[d] # pc[d]) => routes' = routes
      ]_vars

C15_Witness ==
    /\ \E key \in Keys : Len(history[key]) >= 2
    /\ Cardinality(RegisteredKeys) >= 1
    /\ \E d \in Dispatchers : Finished(d) /\ sink[d].code = StatusNotFound
    /\ \E d \in Dispatchers : Finished(d) /\ Len(invoked[d]) = 1

\* The key of a registration.
KeyOf(reg) == <<reg.method, reg.path>>

\* C16: two registrations with different (method, path) pairs, made in
\* either order on the same table, leave the same table, and every request
\* is dispatched alike on the two.
C16_OrderIrrelevant ==
    (orderPc = 2 /\ KeyOf(regPair[1]) # KeyOf(regPair[2]))
    => /\ tableAB = tableBA
       /\ \A method \in ReqMethods, path \in Paths :
             ServeHTTP(tableAB, method, path) = ServeHTTP(tableBA, method, path)

C16_Witness ==
    /\ orderPc = 2
    /\ nRounds = 1
    /\ regPair[1].method = regPair[2].method
    /\ regPair[1].path # regPair[2].path
    /\ regPair[1].handler # regPair[2].handler
    /\ ServeHTTP(tableBA, regPair[1].method, regPair[1].path).invoked
          = <<regPair[1].handler>>
    /\ ServeHTTP(tableAB, regPair[2].method, regPair[2].path).invoked
          = <<regPair[2].handler>>

\* C17: a dispatch that found its handler runs it on a Context of its own,
\* which wraps the sink and the request of that ServeHTTP call; no two
\* dispatches in flight have Contexts over the same sink; a handler writes
\* to the sink of its own request only; and ServeHTTP returns only after its
\* handler has returned.
C17_ContextPerRequest ==
    /\ [](\A d \in Dispatchers :
            pc[d] = "handler" => ctx[d] = [Writer |-> d, Request |-> req[d]])
    /\ [](\A d1, d2 \in Dispatchers :
            (d1 # d2 /\ ctx[d1] # NoCtx /\ ctx[d2] # NoCtx)
            => ctx[d1].Writer # ctx[d2].Writer)
    /\ [][\A d \in Dispatchers :
            /\ (pc[d] = "handler" /\ pc'[d] # "handler")
               => /\ pc'[d] = "RUnlock"
                  /\ sink'[d] = HandlerBody(handler[d], sink[d])
                  /\ \A e \in Dispatchers \ {d} : sink'[e] = sink[e]
            /\ (pc[d] # "idle" /\ pc'[d] = "idle") => pc[d] = "RUnlock"
         ]_vars

C17_Witness ==
    \E d1, d2 \in Dispatchers :
        /\ d1 # d2
        /\ pc[d1] = "handler" /\ pc[d2] = "RUnlock"
        /\ handler[d1] # handler[d2] /\ handler[d2] # None
        /\ sink[d2] = HandlerBody(handler[d2], NewSink("server"))
        /\ sink[d1] = NewSink("server")

\* The calls that hold the router's mutex, by where they are.
ReadLockHolders ==
    {d \in Dispatchers :
        pc[d] \in {"lookupMethod", "lookupPath", "handler", "RUnlock", "panic"}}
WriteLockHolders ==
    {r \in Registrars : pc[r] \in {"LockWait", "ensure", "store", "Unlock"}}

\* C18: the mutex is held by exactly the calls that are between their lock
\* and their deferred unlock, on the 404 returns, on the handler's return
\* and when the handler panics alike; with no call in flight it is free.
C18_LockBalanced ==
    /\ readers = ReadLockHolders
    /\ \A r \in Registrars : writer = r <=> r \in WriteLockHolders
    /\ (\A x \in Registrars \cup Dispatchers : pc[x] = "idle")
          => (writer = None /\ readers = {})

C18_Witness ==
    \E d \in Dispatchers :
        /\ pc[d] = "panic" /\ d \in readers
        /\ \A x \in (Registrars \cup Dispatchers) \ {d} : pc[x] = "idle"
        /\ nReqs = MaxReqs
        /\ nRegs >= 1
        /\ writer = None

\* ------------------------------------------------------------------------
\* The Context helpers on their own: a Context is made over a sink and its
\* helpers are called, as a handler or a test does.
\* ------------------------------------------------------------------------

\* The status codes handed to the helpers; 204 (No Content) permits no body.
StatusCodes == {StatusOK, StatusCreated, 204, StatusInternalServerError}

\* The payloads handed to JSON.
Payloads ==
    <<HealthPayload, CreatedPayload, UsersPayload, GoSlice(<<>>), GoMap(<<>>),
      User(1, <<"Hanzala">>), GoInt(7), GoString(<<"a", "<", Quote, "b">>),
      GoString(<<"a", BadByte>>), GoChan, GoSlice(<<GoChan>>)>>

\* The formats and values handed to String.
Formats == << <<"hello">>, <<"user ", "%v", " created">> >>
FormatValues == << <<>>, <<"Areeb">> >>

\* &httpcontext.Context{Writer: w, Request: req} over a new sink.
NewContext(kind) ==
    /\ cCalls > 0 \/ cw.kind # kind
    /\ cw' = NewSink(kind)
    /\ cCalls' = 0
    /\ cOp' = NoOp
    /\ cBefore' = NewSink(kind)
    /\ UNCHANGED <<routerVars, orderVars, appVars>>

\* c.JSON(statusCode, data)
CallJSON(statusCode, data) ==
    /\ cCalls < MaxHelperCalls
    /\ cBefore' = cw
    /\ cw' = JSON(cw, statusCode, data)
    /\ cOp' = [name |-> "JSON", status |-> statusCode, data |-> data]
    /\ cCalls' = cCalls + 1
    /\ UNCHANGED <<routerVars, orderVars, appVars>>

\* c.String(statusCode, format, values...)
CallString(statusCode, format, values) ==
    /\ cCalls < MaxHelperCalls
    /\ cBefore' = cw
    /\ cw' = String(cw, statusCode, format, values)
    /\ cOp' = [name |-> "String", status |-> statusCode,
               data |-> GoString(Sprintf(format, values))]
    /\ cCalls' = cCalls + 1
    /\ UNCHANGED <<routerVars, orderVars, appVars>>

\* c.Status(statusCode)
CallStatus(statusCode) ==
    /\ cCalls < MaxHelperCalls
    /\ cBefore' = cw
    /\ cw' = Status(cw, statusCode)
    /\ cOp' = [name |-> "Status", status |-> statusCode, data |-> GoChan]
    /\ cCalls' = cCalls + 1
    /\ UNCHANGED <<routerVars, orderVars, appVars>>

CtxNext ==
    \/ \E kind \in SinkKinds : NewContext(kind)
    \/ \E statusCode \in StatusCodes, i \in 1..Len(Payloads) :
          CallJSON(statusCode, Payloads[i])
    \/ \E statusCode \in StatusCodes, i \in 1..Len(Formats), j \in 1..Len(FormatValues) :
          CallString(statusCode, Formats[i], FormatValues[j])
    \/ \E statusCode \in StatusCodes : CallStatus(statusCode)

CtxSpec == Init /\ [][CtxNext]_vars

\* ------------------------------------------------------------------------
\* Properties of the Context helpers
\* ------------------------------------------------------------------------

\* The last helper call was the first on its sink.
FirstCall(name) == cCalls = 1 /\ cOp.name = name

\* C8: JSON with a payload that cannot be serialized leaves the response
\* with status 500, not with the status code passed to JSON.
C8_SerializationFailureIs500 ==
    (FirstCall("JSON") /\ ~Serializable(cOp.data))
    => cw.code = StatusInternalServerError

\* WriteHeader operations the last helper call issued on the sink.
WriteHeadersIssued == CountWriteHeader(cw.ops) - CountWriteHeader(cBefore.ops)

\* C9: every call of JSON, String or Status issues WriteHeader on its sink
\* exactly once, on every path through the helper.
C9_WriteHeaderIssuedOnce ==
    cCalls > 0 => WriteHeadersIssued = 1

\* What the body of the sink decodes to, for a target of the payload's type.
DecodedBody(w, v) == Decode(Flatten(w.body), v.t)
RoundTrips(w, v) == DecodedBody(w, v).ok /\ DecodedBody(w, v).val = v

PermitsBody(statusCode) ==
    ~(\/ (statusCode >= 100 /\ statusCode <= 199)
      \/ statusCode = 204
      \/ statusCode = 304)

\* Whether every string of the payload is valid UTF-8.
RECURSIVE ValidUTF8(_)
ValidUTF8(v) ==
    CASE v.t = "string" -> \A i \in 1..Len(v.s) : v.s[i] # BadByte
      [] v.t = "map" -> \A k \in DOMAIN v.m : \A i \in 1..Len(v.m[k]) : v.m[k][i] # BadByte
      [] v.t = "User" -> \A i \in 1..Len(v.Name) : v.Name[i] # BadByte
      [] v.t = "slice" -> \A i \in 1..Len(v.elems) : ValidUTF8(v.elems[i])
      [] OTHER -> TRUE

OpsIssued == SubSeq(cw.ops, Len(cBefore.ops) + 1, Len(cw.ops))

\* The Content-Type a helper sets.
ContentTypeOf(name) == IF name = "JSON" THEN ContentTypeJSON ELSE ContentTypeText

\* C14: a call of JSON or String first sets its Content-Type header, then
\* writes the status line with its status code, and writes to the body only
\* after both; on a fresh sink, body bytes are there only with the status
\* finalized as that code and the header sent as that Content-Type.
C14_HeaderStatusThenBody ==
    (cCalls > 0 /\ cOp.name \in {"JSON", "String"})
    => /\ Len(OpsIssued) >= 2
       /\ OpsIssued[1] = <<"Header.Set", ContentTypeOf(cOp.name)>>
       /\ OpsIssued[2][1] = "WriteHeader" /\ OpsIssued[2][2] = cOp.status
       /\ \A i \in 1..Len(OpsIssued) : OpsIssued[i][1] = "Write" => i > 2
       /\ (cCalls = 1 /\ Len(cw.body) > 0)
             => /\ cw.wroteHeader
                /\ cw.code = cOp.status
                /\ cw.sentHeader = ContentTypeOf(cOp.name)

C14_Witness ==
    /\ cCalls = 1 /\ cOp.name = "String"
    /\ cw.kind = "server"
    /\ Len(cw.body) = 1
    /\ Len(OpsIssued) = 3
    /\ OpsIssued[3][1] = "Write"

AppRoute(method, path) ==
    IF \E i \in 1..Len(RegisterRoutes) :
          RegisterRoutes[i].method = method /\ RegisterRoutes[i].path = path
    THEN RegisterRoutes[CHOOSE i \in 1..Len(RegisterRoutes) :
            RegisterRoutes[i].method = method /\ RegisterRoutes[i].path = path].handler
    ELSE Absent

\* RegisterRoutes has returned.
RoutesRegistered == mainPc \notin {"New", "RegisterRoutes"}

\* The response of d is a JSON response with this status and payload.
JSONResponse(d, statusCode, payload) ==
    /\ sink[d].code = statusCode
    /\ sink[d].sentHeader = ContentTypeJSON
    /\ Flatten(sink[d].body) = Encode(payload).toks
    /\ RoundTrips(sink[d], payload)

\* C11: once RegisterRoutes has returned the table holds GET /health,
\* GET /users and POST /users with their handlers and nothing else; their
\* dispatches answer 200, 200 and 201 with the JSON body of the handler, and
\* the dispatch of any other (method, path) answers 404 and runs no handler.
C11_AppRoutes ==
    /\ RoutesRegistered
          => \A method \in RegMethods, path \in Paths :
                Stored(method, path) = AppRoute(method, path)
    /\ Cardinality({key \in Keys : AppRoute(key[1], key[2]) # Absent}) = 3
    /\ \A d \in Dispatchers :
          Finished(d)
          => CASE <<req[d].method, req[d].path>> = <<"GET", "/health">> ->
                     /\ invoked[d] = <<"HealthCheckHandler">>
                     /\ JSONResponse(d, 200, HealthPayload)
               [] <<req[d].method, req[d].path>> = <<"GET", "/users">> ->
                     /\ invoked[d] = <<"GetUsersHandler">>
                     /\ JSONResponse(d, 200, UsersPayload)
               [] <<req[d].method, req[d].path>> = <<"POST", "/users">> ->
                     /\ invoked[d] = <<"CreateUserHandler">>
                     /\ JSONResponse(d, 201, CreatedPayload)
               [] OTHER ->
                     /\ invoked[d] = <<>>
                     /\ sink[d].code = 404

C11_Witness ==
    \E d1, d2 \in Dispatchers :
        /\ Finished(d1) /\ req[d1] = [method |-> "POST", path |-> "/users"]
        /\ sink[d1].code = 201
        /\ Finished(d2) /\ req[d2] = [method |-> "GET", path |-> "/non-existent-route"]
        /\ sink[d2].code = 404

\* Start has returned.
StartReturned == startPc \in {"returned", "done", "fatal"}

\* C12: Start has not returned while the server serves; it returns nil
\* exactly when ListenAndServe ended with ErrServerClosed, which it does only
\* after Stop was called; in every other case it returns the error
\* ListenAndServe ended with, and main's goroutine then logs that error and
\* exits the process.
C12_StartResult ==
    /\ srvState = "serving" => startPc = "Serve"
    /\ StartReturned
          => /\ lasErr # None
             /\ startResult = None <=> lasErr = ErrServerClosed
             /\ lasErr = ErrServerClosed => stopPc # "none"
             /\ startResult # None => startResult = lasErr
    /\ startPc = "fatal"
          => (startResult # None /\ logged = startResult /\ proc = "exited")
    /\ startPc = "done" => (startResult = None /\ logged = None)
    /\ logged # None => (startPc = "fatal" /\ proc = "exited")

C12_Witness ==
    /\ startPc = "done"
    /\ startResult = None
    /\ lasErr = ErrServerClosed
    /\ srvState = "closed"
    /\ stopPc = "returned" /\ stopResult = DeadlineExceeded
    /\ proc = "running"

\* C19: main's registrations have all returned before the Server exists,
\* before Start is called and before any request is dispatched; nothing is
\* ever sent on quit, so main never gets past <-quit to its shutdown step,
\* and Stop is never called.
C19_ShutdownUnreachable ==
    /\ (srvState # "none" \/ startPc # "none" \/ \E d \in Dispatchers : pc[d] # "idle")
          => /\ RoutesRegistered
             /\ nRegistered = Len(RegisterRoutes)
             /\ \A r \in Registrars : pc[r] = "idle"
             /\ \A method \in RegMethods, path \in Paths :
                   Stored(method, path) = AppRoute(method, path)
    /\ quit = <<>>
    /\ mainPc \notin {"shutdown", "returned"}
    /\ stopPc = "none" /\ ~inShutdown
    /\ lasErr # ErrServerClosed

C19_Witness ==
    /\ mainPc = "quit"
    /\ srvState = "serving"
    /\ proc = "running"
    /\ nReqs = MaxReqs
    /\ \A d \in Dispatchers : pc[d] = "idle"

====
